---- MODULE Spec2Model ----
(***************************************************************************)
(* voice-transcriber: a recorder client (client/voice_notes.py) and a      *)
(* Whisper transcription server (server/whisper_server.py).                *)
(*                                                                         *)
(* SpecServer models the server process: the model load at import, the    *)
(* /transcribe handler running on the single event loop, the temporary    *)
(* files it creates and deletes, and the /health handler.                 *)
(* SpecClient models the client process: the prompt loop of main, the     *)
(* capture stream with its callback thread, the two remote calls, the     *)
(* except clauses and the note writer.                                    *)
(***************************************************************************)
EXTENDS Integers, Sequences, FiniteSets, TLC

\* ------------------------------------------------------------------ bounds
NumReq == 2          \* /transcribe requests that may be in flight at once
NumTmp == 2          \* names the temporary directory can hand out
MaxFrames == 2       \* frames the audio subsystem delivers per capture session
BlockSize == 1       \* samples per delivered frame

\* ------------------------------------------------------- program constants
SAMPLE_RATE == 16000
PreviewLen == 200

VARIABLES
    \* ---- server process
    phase,        \* "importing" | "serving" | "failed"
    shareLock,    \* TRUE: the OS refuses to delete a file that has an open handle
    loopOwner,    \* request whose coroutine runs on the event loop, 0 when free
    rpc,          \* rpc[r]: position of request r in transcribe()
    filename,     \* filename[r]: audio.filename of the upload
    suffix,       \* suffix[r]
    tmp_path,     \* tmp_path[r]: 0 is None, else a name of the temp directory
    fdOpen,       \* fdOpen[r]: the descriptor mkstemp returned is still open
    exc,          \* exc[r]: exception in flight in the handler
    first_exc,    \* first_exc[r]: first exception any step of the request raised
    ret,          \* ret[r]: value of the return statement, when it ran
    resp,         \* resp[r]: response sent to the caller
    fs,           \* fs[n]: request that created temp file n, 0 when n is absent
    healthSeen,   \* outcome of the latest GET /health
    \* ---- client process
    pc,           \* position of the main thread
    exitReason,   \* "" | "quit" | "crash"
    printed,      \* console lines of the current cycle
    recording,    \* record_audio's flag
    frames,       \* record_audio's frame list (frame numbers, in append order)
    streamOn,     \* the capture stream is started and not yet stopped
    cbpc,         \* position of the callback thread: "idle" | "append"
    indata,       \* frame the running callback was invoked with
    delivered,    \* frames delivered in this session
    sawFlag,      \* sawFlag[k]: the flag as frame k's callback read it
    flagAtAppend, \* flagAtAppend[k]: the flag when frame k was appended
    hasRead,      \* the main thread has read the frame list (line 62)
    readBuf,      \* the frame list as the main thread first read it
    audio,        \* array returned by record_audio
    wav_bytes,    \* encoded container
    result,       \* transcription result
    formatted,    \* formatted notes
    caught,       \* exception caught by the try statement of main
    calls,        \* requests and writes issued in the current cycle
    lastResp,     \* lastResp[c]: what the network gave call c in this cycle
    clock,        \* local wall clock, <<hour, minute>>
    files,        \* vault: filename -> content
    touched,      \* a vault file was created or modified in this cycle
    overwrote,    \* this cycle's save replaced an existing note
    lastSaved     \* lastSaved[t]: content the latest completed save_notes wrote at t

srvVars == <<phase, shareLock, loopOwner, rpc, filename, suffix, tmp_path, fdOpen,
             exc, first_exc, ret, resp, fs, healthSeen>>
recVars == <<recording, frames, streamOn, cbpc, indata, delivered, sawFlag,
             flagAtAppend, hasRead, readBuf, audio>>
pipeVars == <<wav_bytes, result, formatted, caught, calls, lastResp>>
vaultVars == <<clock, files, touched, overwrote, lastSaved>>
cliVars == <<pc, exitReason, printed, recVars, pipeVars, vaultVars>>
vars == <<srvVars, cliVars>>

\* ------------------------------------------------------------ exceptions
NoBody == [kind |-> "none", text |-> <<>>, duration |-> 0]
NoExc == [type |-> "none", msg |-> "", status |-> 0, body |-> NoBody]
Exc(t, m) == [NoExc EXCEPT !.type = t, !.msg = m]


\* ================================================================ SERVER
Requests == 1..NumReq
TmpNames == 1..NumTmp

MaxOf(S) == CHOOSE x \in S : \A y \in S : y <= x

\* Upload filenames the multipart parser can hand over; <<>> is a missing name.
Filenames == { <<>>, <<"r", ".", "w">>, <<"r">>, <<"r", ".", "NUL">> }

\* Path(name).suffix: from the last dot, unless the dot is first or last.
PathSuffix(name) ==
    LET dots == {i \in 1..Len(name) : name[i] = "."}
        j == IF dots = {} THEN 0 ELSE MaxOf(dots)
    IN IF 1 < j /\ j < Len(name) THEN SubSeq(name, j, Len(name)) ELSE <<>>

\* line 27: suffix = Path(audio.filename).suffix if audio.filename else ".wav"
SuffixOf(name) == IF name # <<>> THEN PathSuffix(name) ELSE <<".", "w", "a", "v">>

HasNul(s) == \E i \in 1..Len(s) : s[i] = "NUL"

\* segment.text.strip()
RECURSIVE LStrip(_)
LStrip(s) == IF s # <<>> /\ Head(s) = " " THEN LStrip(Tail(s)) ELSE s
RECURSIVE RStrip(_)
RStrip(s) == IF s # <<>> /\ s[Len(s)] = " " THEN RStrip(SubSeq(s, 1, Len(s) - 1)) ELSE s
Strip(s) == RStrip(LStrip(s))

\* " ".join(segment.text.strip() for segment in segments)
RECURSIVE JoinSegments(_)
JoinSegments(segs) ==
    IF segs = <<>> THEN <<>>
    ELSE IF Len(segs) = 1 THEN Strip(segs[1])
    ELSE Strip(segs[1]) \o <<" ">> \o JoinSegments(Tail(segs))

\* Segment lists the model can produce.
SegmentLists == { <<>>, << <<" ", "a">> >>, << <<"a", " ">>, <<" ", "b">> >> }

NoResp == [code |-> 0, form |-> "none", detail |-> "", text |-> <<>>]
NoRet == [set |-> FALSE, text |-> <<>>]

\* raise HTTPException(status_code=500, detail=str(e))
HTTPException500(e) == [Exc("HTTPException", e.msg) EXCEPT !.status = 500]

\* What the web layer sends for the way the handler ended.
ResponseFor(e, rv) ==
    IF e.type = "HTTPException"
    THEN [code |-> e.status, form |-> "http_exception", detail |-> e.msg, text |-> <<>>]
    ELSE IF e.type # "none"
    THEN [code |-> 500, form |-> "unhandled", detail |-> "", text |-> <<>>]
    ELSE [code |-> 200, form |-> "result", detail |-> "", text |-> rv.text]

\* An exception raised inside the try block: control goes to the except clause.
RaiseIn(r, e) ==
    /\ exc' = [exc EXCEPT ![r] = e]
    /\ first_exc' = [first_exc EXCEPT ![r] = IF @ = NoExc THEN e ELSE @]
    /\ rpc' = [rpc EXCEPT ![r] = "except"]

\* line 21: model = WhisperModel(...) runs at import, before uvicorn.run.
ModelLoaded ==
    /\ phase = "importing"
    /\ phase' = "serving"
    /\ UNCHANGED <<shareLock, loopOwner, rpc, filename, suffix, tmp_path, fdOpen,
                   exc, first_exc, ret, resp, fs, healthSeen>>
    /\ UNCHANGED cliVars

ModelLoadFailed ==
    /\ phase = "importing"
    /\ phase' = "failed"
    /\ UNCHANGED <<shareLock, loopOwner, rpc, filename, suffix, tmp_path, fdOpen,
                   exc, first_exc, ret, resp, fs, healthSeen>>
    /\ UNCHANGED cliVars

\* lines 25-28: the handler is entered with an upload.
Receive(r) ==
    /\ phase = "serving" /\ loopOwner = 0 /\ rpc[r] = "idle"
    /\ \E fn \in Filenames :
         /\ filename' = [filename EXCEPT ![r] = fn]
         /\ suffix' = [suffix EXCEPT ![r] = SuffixOf(fn)]
    /\ tmp_path' = [tmp_path EXCEPT ![r] = 0]
    /\ rpc' = [rpc EXCEPT ![r] = "mkstemp"]
    /\ loopOwner' = r
    /\ UNCHANGED <<phase, shareLock, fdOpen, exc, first_exc, ret, resp, fs, healthSeen>>
    /\ UNCHANGED cliVars

\* line 30: fd, tmp_path = tempfile.mkstemp(suffix=suffix); then line 31 awaits.
Mkstemp(r) ==
    /\ loopOwner = r /\ rpc[r] = "mkstemp"
    /\ LET free == {n \in TmpNames : fs[n] = 0} IN
       \/ /\ HasNul(suffix[r])
          /\ RaiseIn(r, Exc("ValueError", "embedded null byte"))
          /\ UNCHANGED <<tmp_path, fdOpen, fs, loopOwner>>
       \/ /\ ~HasNul(suffix[r]) /\ free = {}
          /\ RaiseIn(r, Exc("FileExistsError", "no usable name"))
          /\ UNCHANGED <<tmp_path, fdOpen, fs, loopOwner>>
       \/ /\ ~HasNul(suffix[r])
          /\ RaiseIn(r, Exc("OSError", "mkstemp failed"))
          /\ UNCHANGED <<tmp_path, fdOpen, fs, loopOwner>>
       \/ /\ ~HasNul(suffix[r])
          /\ \E n \in free :
               /\ tmp_path' = [tmp_path EXCEPT ![r] = n]
               /\ fs' = [fs EXCEPT ![n] = r]
          /\ fdOpen' = [fdOpen EXCEPT ![r] = TRUE]
          /\ rpc' = [rpc EXCEPT ![r] = "reading"]
          /\ loopOwner' = 0
          /\ UNCHANGED <<exc, first_exc>>
    /\ UNCHANGED <<phase, shareLock, filename, suffix, ret, resp, healthSeen>>
    /\ UNCHANGED cliVars

\* line 31: content = await audio.read() completes or raises.
ReadDone(r) ==
    /\ loopOwner = 0 /\ rpc[r] = "reading"
    /\ loopOwner' = r
    /\ \/ /\ rpc' = [rpc EXCEPT ![r] = "write"]
          /\ UNCHANGED <<exc, first_exc>>
       \/ RaiseIn(r, Exc("OSError", "read failed"))
    /\ UNCHANGED <<phase, shareLock, filename, suffix, tmp_path, fdOpen, ret, resp,
                   fs, healthSeen>>
    /\ UNCHANGED cliVars

\* lines 32-33: with open(fd, "wb") as tmp: tmp.write(content)
Write(r) ==
    /\ loopOwner = r /\ rpc[r] = "write"
    /\ fdOpen' = [fdOpen EXCEPT ![r] = FALSE]
    /\ \/ /\ rpc' = [rpc EXCEPT ![r] = "model"]
          /\ UNCHANGED <<exc, first_exc>>
       \/ RaiseIn(r, Exc("OSError", "write failed"))
    /\ UNCHANGED <<phase, shareLock, loopOwner, filename, suffix, tmp_path, ret, resp,
                   fs, healthSeen>>
    /\ UNCHANGED cliVars

\* line 35: segments, info = model.transcribe(tmp_path, beam_size=5)
RunModel(r) ==
    /\ loopOwner = r /\ rpc[r] = "model"
    /\ \/ /\ rpc' = [rpc EXCEPT ![r] = "join"]
          /\ UNCHANGED <<exc, first_exc>>
       \/ RaiseIn(r, Exc("RuntimeError", "model failed"))
    /\ UNCHANGED <<phase, shareLock, loopOwner, filename, suffix, tmp_path, fdOpen,
                   ret, resp, fs, healthSeen>>
    /\ UNCHANGED cliVars

\* lines 36-42: iterate the segments, join them, return the result.
JoinAndReturn(r) ==
    /\ loopOwner = r /\ rpc[r] = "join"
    /\ \/ /\ \E segs \in SegmentLists :
               ret' = [ret EXCEPT ![r] = [set |-> TRUE, text |-> JoinSegments(segs)]]
          /\ rpc' = [rpc EXCEPT ![r] = "finally"]
          /\ UNCHANGED <<exc, first_exc>>
       \/ /\ RaiseIn(r, Exc("RuntimeError", "decoding failed"))
          /\ UNCHANGED ret
    /\ UNCHANGED <<phase, shareLock, loopOwner, filename, suffix, tmp_path, fdOpen,
                   resp, fs, healthSeen>>
    /\ UNCHANGED cliVars

\* lines 43-44
Except(r) ==
    /\ loopOwner = r /\ rpc[r] = "except"
    /\ exc' = [exc EXCEPT ![r] = HTTPException500(@)]
    /\ rpc' = [rpc EXCEPT ![r] = "finally"]
    /\ UNCHANGED <<phase, shareLock, loopOwner, filename, suffix, tmp_path, fdOpen,
                   first_exc, ret, resp, fs, healthSeen>>
    /\ UNCHANGED cliVars

\* Path(tmp_path).unlink(missing_ok=True): refused while a handle is open on a
\* system that locks open files; a missing file is not an error.
UnlinkRefused(r) == shareLock /\ fdOpen[r] /\ fs[tmp_path[r]] # 0

\* lines 45-47; then the response leaves the process and the handler's locals die.
Finally(r) ==
    /\ loopOwner = r /\ rpc[r] = "finally"
    /\ LET refused == tmp_path[r] # 0 /\ UnlinkRefused(r)
           e == IF refused THEN Exc("PermissionError", "file in use") ELSE exc[r]
       IN /\ fs' = IF tmp_path[r] # 0 /\ ~refused
                   THEN [fs EXCEPT ![tmp_path[r]] = 0]
                   ELSE fs
          /\ first_exc' = [first_exc EXCEPT ![r] = IF @ = NoExc THEN e ELSE @]
          /\ resp' = [resp EXCEPT ![r] = ResponseFor(e, ret[r])]
    /\ exc' = [exc EXCEPT ![r] = NoExc]
    /\ ret' = [ret EXCEPT ![r] = NoRet]
    /\ filename' = [filename EXCEPT ![r] = <<>>]
    /\ suffix' = [suffix EXCEPT ![r] = <<>>]
    /\ rpc' = [rpc EXCEPT ![r] = "done"]
    /\ loopOwner' = 0
    /\ UNCHANGED <<phase, shareLock, tmp_path, fdOpen, healthSeen>>
    /\ UNCHANGED cliVars

\* A health handler that reports on the requests that failed.
HealthResponse_m ==
    IF \E r \in Requests : resp[r].code = 500
    THEN [code |-> 503, status |-> "degraded"]
    ELSE [code |-> 200, status |-> "ok"]

\* lines 50-52
HealthResponse == [code |-> 200, status |-> "ok"]

\* GET /health reaches the handler: the process is serving and the loop is free.
HealthServed ==
    /\ phase = "serving" /\ loopOwner = 0
    /\ healthSeen' = HealthResponse
    /\ UNCHANGED <<phase, shareLock, loopOwner, rpc, filename, suffix, tmp_path, fdOpen,
                   exc, first_exc, ret, resp, fs>>
    /\ UNCHANGED cliVars

\* GET /health while nothing listens: uvicorn.run (line 56) has not been reached.
HealthRefused ==
    /\ phase # "serving"
    /\ healthSeen' = [code |-> 0, status |-> "refused"]
    /\ UNCHANGED <<phase, shareLock, loopOwner, rpc, filename, suffix, tmp_path, fdOpen,
                   exc, first_exc, ret, resp, fs>>
    /\ UNCHANGED cliVars

InitServer ==
    /\ phase = "importing"
    /\ shareLock \in BOOLEAN
    /\ loopOwner = 0
    /\ rpc = [r \in Requests |-> "idle"]
    /\ filename = [r \in Requests |-> <<>>]
    /\ suffix = [r \in Requests |-> <<>>]
    /\ tmp_path = [r \in Requests |-> 0]
    /\ fdOpen = [r \in Requests |-> FALSE]
    /\ exc = [r \in Requests |-> NoExc]
    /\ first_exc = [r \in Requests |-> NoExc]
    /\ ret = [r \in Requests |-> NoRet]
    /\ resp = [r \in Requests |-> NoResp]
    /\ fs = [n \in TmpNames |-> 0]
    /\ healthSeen = [code |-> 0, status |-> "none"]

NextServer ==
    \/ ModelLoaded
    \/ ModelLoadFailed
    \/ HealthServed
    \/ HealthRefused
    \/ \E r \in Requests : Receive(r)
    \/ \E r \in Requests : Mkstemp(r)
    \/ \E r \in Requests : ReadDone(r)
    \/ \E r \in Requests : Write(r)
    \/ \E r \in Requests : RunModel(r)
    \/ \E r \in Requests : JoinAndReturn(r)
    \/ \E r \in Requests : Except(r)
    \/ \E r \in Requests : Finally(r)

\* ================================================================ CLIENT
FrameIds == 1..MaxFrames

DigitChars == <<"0", "1", "2", "3", "4", "5", "6", "7", "8", "9">>
Digit(d) == DigitChars[d + 1]

NoLine == [kind |-> "none", text |-> <<>>, status |-> 0, body |-> NoBody, msg |-> ""]
Line(k) == [NoLine EXCEPT !.kind = k]

\* int16 samples of the frame the audio subsystem delivers k-th
FrameData(k) == [i \in 1..BlockSize |-> 200 * k - 300]

\* np.concatenate(frames, axis=0)
RECURSIVE Concatenate(_)
Concatenate(fs_) ==
    IF fs_ = <<>> THEN <<>> ELSE FrameData(Head(fs_)) \o Concatenate(Tail(fs_))

\* lines 62-65
ReturnedArray(fs_) == IF fs_ = <<>> THEN <<>> ELSE Concatenate(fs_)

\* audio.tobytes(): little-endian two's complement, two bytes a sample
RECURSIVE ToBytes(_)
ToBytes(a) ==
    IF a = <<>> THEN <<>>
    ELSE LET u == (Head(a) + 65536) % 65536
         IN <<u % 256, u \div 256>> \o ToBytes(Tail(a))

\* lines 68-77: the wave writer sets the frame count from the bytes written
audio_to_wav_bytes(a) ==
    LET data == ToBytes(a)
    IN [nchannels |-> 1, sampwidth |-> 2, framerate |-> SAMPLE_RATE,
        nframes |-> Len(data) \div 2, data |-> data]

NoWav == [nchannels |-> 0, sampwidth |-> 0, framerate |-> 0, nframes |-> 0, data |-> <<>>]

\* An exception outside any try statement ends main, and with it the process.
Crash ==
    /\ pc' = "exited"
    /\ exitReason' = "crash"

\* lines 144-148 and, for any other input, the entry of record_audio (lines 46-48)
Prompt ==
    /\ pc = "prompt"
    /\ \/ /\ pc' = "exited"
          /\ exitReason' = "quit"
          /\ printed' = <<Line("bye")>>
          /\ UNCHANGED recVars
       \/ /\ pc' = "rec_open"
          /\ frames' = <<>>
          /\ recording' = TRUE
          /\ delivered' = 0
          /\ sawFlag' = [k \in FrameIds |-> "unset"]
          /\ flagAtAppend' = [k \in FrameIds |-> "unset"]
          /\ hasRead' = FALSE
          /\ readBuf' = <<>>
          /\ audio' = <<>>
          /\ UNCHANGED <<exitReason, printed, streamOn, cbpc, indata>>
    /\ UNCHANGED <<pipeVars, vaultVars>>
    /\ UNCHANGED srvVars

\* line 54: stream = sd.InputStream(...)
OpenStream ==
    /\ pc = "rec_open"
    /\ \/ pc' = "rec_start" /\ UNCHANGED exitReason
       \/ Crash
    /\ UNCHANGED <<printed, recVars, pipeVars, vaultVars>>
    /\ UNCHANGED srvVars

\* line 55: stream.start()
StartStream ==
    /\ pc = "rec_start"
    /\ \/ /\ pc' = "rec_input"
          /\ streamOn' = TRUE
          /\ UNCHANGED exitReason
       \/ Crash /\ UNCHANGED streamOn
    /\ UNCHANGED <<printed, recording, frames, cbpc, indata, delivered, sawFlag,
                   flagAtAppend, hasRead, readBuf, audio, pipeVars, vaultVars>>
    /\ UNCHANGED srvVars

\* lines 50-51: the audio thread invokes the callback, which reads the flag
CallbackCheck ==
    /\ streamOn /\ cbpc = "idle" /\ delivered < MaxFrames
    /\ delivered' = delivered + 1
    /\ indata' = delivered + 1
    /\ sawFlag' = [sawFlag EXCEPT ![delivered + 1] = IF recording THEN "true" ELSE "false"]
    /\ cbpc' = IF recording THEN "append" ELSE "idle"
    /\ UNCHANGED <<pc, exitReason, printed, recording, frames, streamOn, flagAtAppend,
                   hasRead, readBuf, audio, pipeVars, vaultVars>>
    /\ UNCHANGED srvVars

\* line 52: frames.append(indata.copy())
CallbackAppend ==
    /\ cbpc = "append"
    /\ frames' = Append(frames, indata)
    /\ flagAtAppend' = [flagAtAppend EXCEPT ![indata] = IF recording THEN "true" ELSE "false"]
    /\ cbpc' = "idle"
    /\ UNCHANGED <<pc, exitReason, printed, recording, streamOn, indata, delivered,
                   sawFlag, hasRead, readBuf, audio, pipeVars, vaultVars>>
    /\ UNCHANGED srvVars

\* line 57: input() returns when the operator presses Enter
EnterPressed ==
    /\ pc = "rec_input"
    /\ pc' = "rec_flag"
    /\ UNCHANGED <<exitReason, printed, recVars, pipeVars, vaultVars>>
    /\ UNCHANGED srvVars

\* line 58: recording = False
ClearFlag ==
    /\ pc = "rec_flag"
    /\ recording' = FALSE
    /\ pc' = "rec_stop"
    /\ UNCHANGED <<exitReason, printed, frames, streamOn, cbpc, indata, delivered,
                   sawFlag, flagAtAppend, hasRead, readBuf, audio, pipeVars, vaultVars>>
    /\ UNCHANGED srvVars

\* A stop that returns while a callback is still running.
StopMayReturn_m == TRUE

\* stream.stop() returns only once no callback is running
StopMayReturn == cbpc = "idle"

\* line 59: stream.stop()
StopStream ==
    /\ pc = "rec_stop"
    /\ StopMayReturn
    /\ streamOn' = FALSE
    /\ \/ pc' = "rec_close" /\ UNCHANGED exitReason
       \/ Crash
    /\ UNCHANGED <<printed, recording, frames, cbpc, indata, delivered, sawFlag,
                   flagAtAppend, hasRead, readBuf, audio, pipeVars, vaultVars>>
    /\ UNCHANGED srvVars

\* line 60: stream.close()
CloseStream ==
    /\ pc = "rec_close"
    /\ \/ pc' = "rec_ret" /\ UNCHANGED exitReason
       \/ Crash
    /\ UNCHANGED <<printed, recVars, pipeVars, vaultVars>>
    /\ UNCHANGED srvVars

\* lines 62-65: the main thread reads the frame list and returns the array
ReturnAudio ==
    /\ pc = "rec_ret"
    /\ hasRead' = TRUE
    /\ readBuf' = frames
    /\ audio' = ReturnedArray(frames)
    /\ pc' = "main_size"
    /\ UNCHANGED <<exitReason, printed, recording, frames, streamOn, cbpc, indata,
                   delivered, sawFlag, flagAtAppend, pipeVars, vaultVars>>
    /\ UNCHANGED srvVars

\* ---------------------------------------------------------- the pipeline
MinOf(a, b) == IF a < b THEN a ELSE b

\* Transcripts the transcription endpoint may return, by length.
Transcript(n) == [i \in 1..n |-> Digit((i - 1) % 10)]
Transcripts == {Transcript(n) : n \in {5, PreviewLen, PreviewLen + 1}}

\* Response bodies: the expected JSON, a JSON error object, or no JSON at all.
WhisperBodies ==
    {[kind |-> "result", text |-> t, duration |-> 250] : t \in Transcripts}
        \cup {[NoBody EXCEPT !.kind = "detail"], [NoBody EXCEPT !.kind = "garbage"]}
OllamaBodies ==
    {[kind |-> "response", text |-> <<"n">>, duration |-> 0],
     [NoBody EXCEPT !.kind = "detail"], [NoBody EXCEPT !.kind = "garbage"]}

\* What the network can give a POST: no connection, a read timeout, or a response.
NoCall == [net |-> "none", status |-> 0, body |-> NoBody]
Outcomes(bodies) ==
    {[NoCall EXCEPT !.net = "unreachable"], [NoCall EXCEPT !.net = "timeout"]}
        \cup {[net |-> "response", status |-> st, body |-> b] :
                 st \in {200, 300, 500}, b \in bodies}

\* resp.raise_for_status() raises for the 4xx and 5xx statuses
raise_for_status(status) == 400 <= status /\ status < 600

\* requests.post(...); resp.raise_for_status(); resp.json() (lines 83-89, 95-105)
PostRaises(o) ==
    IF o.net = "unreachable" THEN Exc("ConnectionError", "unreachable")
    ELSE IF o.net = "timeout" THEN Exc("ReadTimeout", "timed out")
    ELSE IF raise_for_status(o.status)
         THEN [Exc("HTTPError", "http error") EXCEPT !.status = o.status, !.body = o.body]
    ELSE IF o.body.kind = "garbage" THEN Exc("JSONDecodeError", "not json")
    ELSE NoExc

\* The ellipsis test off by one: len(transcript) >= 200.
Preview_m(t) ==
    SubSeq(t, 1, MinOf(PreviewLen, Len(t)))
        \o (IF Len(t) >= PreviewLen THEN <<".", ".", ".">> ELSE <<>>)

\* line 164: transcript[:200] and the ellipsis
Preview(t) ==
    SubSeq(t, 1, MinOf(PreviewLen, Len(t)))
        \o (IF Len(t) > PreviewLen THEN <<".", ".", ".">> ELSE <<>>)

\* The generic clause placed first: it catches everything.
ExceptClause_m(e) == [Line("generic") EXCEPT !.msg = e.msg]

\* lines 170-175: the except clauses, in order
ExceptClause(e) ==
    IF e.type = "ConnectionError" THEN Line("unreachable")
    ELSE IF e.type = "HTTPError"
         THEN [Line("http") EXCEPT !.status = e.status, !.body = e.body]
    ELSE [Line("generic") EXCEPT !.msg = e.msg]

\* A handler that sends the recording again.
AfterHandler_m == "transcribe"

\* Where main goes once an except clause has printed its message.
AfterHandler == "cycle_end"

\* The empty check left out.
AudioIsEmpty_m(a) == FALSE

\* line 151: audio.size == 0
AudioIsEmpty(a) == Len(a) = 0

\* Local clock readings, <<hour, minute>>, of the modelled day.
Times == { <<1, 11>>, <<11, 1>> }

\* strftime's %H and %M: two digits, zero padded
Pad2(n) == <<Digit(n \div 10), Digit(n % 10)>>

\* Hour and minute written without zero padding.
Unpadded(n) == IF n < 10 THEN <<Digit(n)>> ELSE Pad2(n)
NoteName_m(now) ==
    <<"Y-m-d-">> \o Unpadded(now[1]) \o Unpadded(now[2]) \o <<"-meeting-notes.md">>

\* line 113: now.strftime("%Y-%m-%d-%H%M") + "-meeting-notes.md"
NoteName(now) == <<"Y-m-d-">> \o Pad2(now[1]) \o Pad2(now[2]) \o <<"-meeting-notes.md">>

\* line 116: now.strftime("%Y-%m-%d %H:%M")
Heading(now) == <<"Y-m-d ">> \o Pad2(now[1]) \o <<":">> \o Pad2(now[2])

VaultNames == {NoteName(t) : t \in Times}

NoFile == [kind |-> "absent", heading |-> <<>>, duration |-> 0, formatted |-> <<>>,
           transcript |-> <<>>]
\* A file opened for writing and left short by a failed write.
PartialFile == [NoFile EXCEPT !.kind = "partial"]

\* lines 116-130
NoteContent(now, fmt, transcript, duration) ==
    [kind |-> "note", heading |-> Heading(now), duration |-> duration,
     formatted |-> fmt, transcript |-> transcript]

NoCallRec == [op |-> "none", nframes |-> 0, text |-> <<>>, name |-> <<>>]

\* lines 151-156
CheckSize ==
    /\ pc = "main_size"
    /\ IF AudioIsEmpty(audio)
       THEN /\ printed' = Append(printed, Line("no_audio"))
            /\ pc' = "cycle_end"
       ELSE /\ printed' = Append(printed, Line("captured"))
            /\ pc' = "encode"
    /\ UNCHANGED <<exitReason, recVars, pipeVars, vaultVars>>
    /\ UNCHANGED srvVars

\* line 158
Encode ==
    /\ pc = "encode"
    /\ \/ /\ wav_bytes' = audio_to_wav_bytes(audio)
          /\ pc' = "transcribe"
          /\ UNCHANGED exitReason
       \/ Crash /\ UNCHANGED wav_bytes
    /\ UNCHANGED <<printed, recVars, result, formatted, caught, calls, lastResp, vaultVars>>
    /\ UNCHANGED srvVars

\* line 161: result = transcribe(wav_bytes)
Transcribe ==
    /\ pc = "transcribe"
    /\ calls' = Append(calls, [NoCallRec EXCEPT !.op = "transcribe",
                                                !.nframes = wav_bytes.nframes])
    /\ \E o \in Outcomes(WhisperBodies) :
         /\ lastResp' = [lastResp EXCEPT !.transcribe = o]
         /\ IF PostRaises(o) = NoExc
            THEN /\ result' = o.body
                 /\ pc' = "preview"
                 /\ UNCHANGED caught
            ELSE /\ caught' = PostRaises(o)
                 /\ pc' = "handler"
                 /\ UNCHANGED result
    /\ UNCHANGED <<exitReason, printed, recVars, wav_bytes, formatted, vaultVars>>
    /\ UNCHANGED srvVars

\* lines 162-164
PrintPreview ==
    /\ pc = "preview"
    /\ IF result.kind = "result"
       THEN /\ printed' = Append(printed, [Line("preview") EXCEPT !.text = Preview(result.text)])
            /\ pc' = "format"
            /\ UNCHANGED caught
       ELSE /\ caught' = Exc("KeyError", "text")
            /\ pc' = "handler"
            /\ UNCHANGED printed
    /\ UNCHANGED <<exitReason, recVars, wav_bytes, result, formatted, calls, lastResp,
                   vaultVars>>
    /\ UNCHANGED srvVars

\* line 166: formatted = format_notes(transcript)
Format ==
    /\ pc = "format"
    /\ calls' = Append(calls, [NoCallRec EXCEPT !.op = "format", !.text = result.text])
    /\ \E o \in Outcomes(OllamaBodies) :
         /\ lastResp' = [lastResp EXCEPT !.format = o]
         /\ IF PostRaises(o) # NoExc
            THEN /\ caught' = PostRaises(o)
                 /\ pc' = "handler"
                 /\ UNCHANGED formatted
            ELSE IF o.body.kind # "response"
            THEN /\ caught' = Exc("KeyError", "response")
                 /\ pc' = "handler"
                 /\ UNCHANGED formatted
            ELSE /\ formatted' = o.body.text
                 /\ pc' = "save"
                 /\ UNCHANGED caught
    /\ UNCHANGED <<exitReason, printed, recVars, wav_bytes, result, vaultVars>>
    /\ UNCHANGED srvVars

\* The wall clock moves (forward, or back when it is corrected) before it is read.
Tick ==
    /\ pc = "save"
    /\ \E t \in Times \ {clock} : clock' = t
    /\ UNCHANGED <<pc, exitReason, printed, recVars, pipeVars, files, touched, overwrote,
                   lastSaved>>
    /\ UNCHANGED srvVars

\* lines 167-168 with save_notes (lines 108-132)
Save ==
    /\ pc = "save"
    /\ LET now == clock
           name == NoteName(now)
           content == NoteContent(now, formatted, result.text, result.duration)
       IN /\ calls' = Append(calls, [NoCallRec EXCEPT !.op = "write", !.name = name])
          /\ \/ /\ files' = [files EXCEPT ![name] = content]
                /\ touched' = TRUE
                /\ overwrote' = (files[name].kind = "note")
                /\ lastSaved' = [lastSaved EXCEPT ![now] = content]
                /\ printed' = Append(printed, [Line("saved") EXCEPT !.text = name])
                /\ pc' = "cycle_end"
                /\ UNCHANGED caught
             \/ /\ caught' = Exc("OSError", "cannot open")
                /\ pc' = "handler"
                /\ UNCHANGED <<files, touched, overwrote, lastSaved, printed>>
             \/ /\ files' = [files EXCEPT ![name] = PartialFile]
                /\ touched' = TRUE
                /\ lastSaved' = [lastSaved EXCEPT ![now] = NoFile]
                /\ caught' = Exc("OSError", "write failed")
                /\ pc' = "handler"
                /\ UNCHANGED <<overwrote, printed>>
    /\ UNCHANGED <<exitReason, recVars, wav_bytes, result, formatted, lastResp, clock>>
    /\ UNCHANGED srvVars

\* lines 170-175
Handler ==
    /\ pc = "handler"
    /\ printed' = Append(printed, ExceptClause(caught))
    /\ pc' = AfterHandler
    /\ UNCHANGED <<exitReason, recVars, pipeVars, vaultVars>>
    /\ UNCHANGED srvVars

IdleRec ==
    /\ recording = FALSE /\ frames = <<>> /\ streamOn = FALSE /\ cbpc = "idle"
    /\ indata = 0 /\ delivered = 0
    /\ sawFlag = [k \in FrameIds |-> "unset"]
    /\ flagAtAppend = [k \in FrameIds |-> "unset"]
    /\ hasRead = FALSE /\ readBuf = <<>> /\ audio = <<>>

IdlePipe ==
    /\ wav_bytes = NoWav /\ result = NoBody /\ formatted = <<>> /\ caught = NoExc
    /\ calls = <<>>
    /\ lastResp = [transcribe |-> NoCall, format |-> NoCall]

\* line 143: the next iteration; the previous one's locals are gone
LoopBack ==
    /\ pc = "cycle_end"
    /\ pc' = "prompt"
    /\ printed' = <<>>
    /\ recording' = FALSE /\ frames' = <<>> /\ streamOn' = FALSE /\ cbpc' = "idle"
    /\ indata' = 0 /\ delivered' = 0
    /\ sawFlag' = [k \in FrameIds |-> "unset"]
    /\ flagAtAppend' = [k \in FrameIds |-> "unset"]
    /\ hasRead' = FALSE /\ readBuf' = <<>> /\ audio' = <<>>
    /\ wav_bytes' = NoWav /\ result' = NoBody /\ formatted' = <<>> /\ caught' = NoExc
    /\ calls' = <<>>
    /\ lastResp' = [transcribe |-> NoCall, format |-> NoCall]
    /\ touched' = FALSE /\ overwrote' = FALSE
    /\ UNCHANGED <<exitReason, clock, files, lastSaved>>
    /\ UNCHANGED srvVars

InitClient ==
    /\ pc = "prompt" /\ exitReason = "" /\ printed = <<>>
    /\ IdleRec /\ IdlePipe
    /\ clock \in Times
    /\ files = [n \in VaultNames |-> NoFile]
    /\ touched = FALSE /\ overwrote = FALSE
    /\ lastSaved = [t \in Times |-> NoFile]

NextClient ==
    \/ Prompt
    \/ OpenStream
    \/ StartStream
    \/ CallbackCheck
    \/ CallbackAppend
    \/ EnterPressed
    \/ ClearFlag
    \/ StopStream
    \/ CloseStream
    \/ ReturnAudio
    \/ CheckSize
    \/ Encode
    \/ Transcribe
    \/ PrintPreview
    \/ Format
    \/ Tick
    \/ Save
    \/ Handler
    \/ LoopBack

\* ======================================================= specifications
\* The server process, beside a client that stays at its prompt.
ServerInit == InitServer /\ InitClient /\ clock = <<1, 11>>
SpecServer == ServerInit /\ [][NextServer]_vars

\* The client process; the endpoints it calls are its environment.
ClientInit == InitClient /\ InitServer /\ shareLock = FALSE
SpecClient == ClientInit /\ [][NextClient]_vars

\* ================================================================ claims
\* ---- C1 (as stated): once a /transcribe request that created a temporary file
\* has been answered, that file no longer exists, whichever step failed.
C1_TempFileRemoved ==
    \A r \in Requests :
        (rpc[r] = "done" /\ tmp_path[r] # 0) => fs[tmp_path[r]] # r

\* ---- C4 (as stated): a request in which no step raised is answered 200, and a
\* request in which any step raised is answered with a 500 whose detail is the
\* message of the exception; nothing leaves the handler in another form.
C4_EveryExceptionIs500 ==
    \A r \in Requests :
        rpc[r] = "done" =>
            IF first_exc[r] = NoExc
            THEN resp[r].code = 200 /\ resp[r].form = "result"
            ELSE /\ resp[r].code = 500
                 /\ resp[r].form = "http_exception"
                 /\ resp[r].detail = first_exc[r].msg

\* ---- C8 (as stated): in every state of the server process, a health request
\* is answered with 200 and {"status": "ok"}.
C8_HealthAlwaysOk ==
    healthSeen.status # "none" => healthSeen = [code |-> 200, status |-> "ok"]

\* ---- C8 (amended): every health request the process answers is answered with
\* 200 and {"status": "ok"}, whatever /transcribe requests are in flight or have
\* failed; it answers only while serving, which is after the model has loaded.
C8_HealthOkWhenServing ==
    healthSeen.status \notin {"none", "refused"} =>
        /\ healthSeen = [code |-> 200, status |-> "ok"]
        /\ phase = "serving"

\* A health request answered while one request has failed and another is in flight.
C8_Witness ==
    /\ healthSeen.status = "ok"
    /\ \E r \in Requests : resp[r].code = 500
    /\ \E r \in Requests : rpc[r] = "reading"

\* ---- C2: a capture session with zero frames issues no request and writes no
\* note, main going back to the prompt; and every transcription request carries
\* a container with at least one sample.
C2_EmptyCaptureNoCall ==
    /\ \A i \in 1..Len(calls) : calls[i].op = "transcribe" => calls[i].nframes > 0
    /\ (hasRead /\ frames = <<>>) =>
           /\ audio = <<>>
           /\ calls = <<>>
           /\ ~touched
           /\ pc \in {"main_size", "cycle_end"}

\* An empty capture that went back to the prompt with the no-audio message.
C2_Witness ==
    /\ pc = "cycle_end" /\ hasRead /\ frames = <<>>
    /\ printed = <<Line("no_audio")>>

\* ---- C3 (as stated): whichever step of a recording cycle fails, the loop goes
\* back to the prompt; the process ends only when the operator enters 'q'.
C3_OnlyQuitEndsProcess == pc = "exited" => exitReason = "quit"

\* The error lines of the current cycle.
IsReport(l) == l.kind \in {"unreachable", "http", "generic"}
Reports == SelectSeq(printed, IsReport)
HttpLine(o) == [Line("http") EXCEPT !.status = o.status, !.body = o.body]

\* ---- C5 (as stated): an unreachable endpoint gives the cannot-reach message, a
\* non-2xx response gives the message with its status and body, any other
\* exception gives the generic message; one report per failed cycle, none otherwise.
C5_NonSuccessReported ==
    pc = "cycle_end" =>
        /\ Len(Reports) <= 1
        /\ (caught = NoExc <=> Reports = <<>>)
        /\ \A c \in {"transcribe", "format"} :
               /\ lastResp[c].net = "unreachable" => Reports = <<Line("unreachable")>>
               /\ (lastResp[c].net = "response" /\ lastResp[c].status \notin 200..299)
                      => Reports = <<HttpLine(lastResp[c])>>
        /\ caught.type \notin {"none", "ConnectionError", "HTTPError"}
               => Reports = <<[Line("generic") EXCEPT !.msg = caught.msg]>>

\* ---- C5 (amended): as stated, with "a 4xx or 5xx response" in place of "a
\* non-2xx response".
C5_ErrorStatusReported ==
    pc = "cycle_end" =>
        /\ Len(Reports) <= 1
        /\ (caught = NoExc <=> Reports = <<>>)
        /\ \A c \in {"transcribe", "format"} :
               /\ lastResp[c].net = "unreachable" => Reports = <<Line("unreachable")>>
               /\ (lastResp[c].net = "response" /\ lastResp[c].status \in 400..599)
                      => Reports = <<HttpLine(lastResp[c])>>
        /\ caught.type \notin {"none", "ConnectionError", "HTTPError"}
               => Reports = <<[Line("generic") EXCEPT !.msg = caught.msg]>>

\* The formatting call answered 500 and the cycle reported exactly that.
C5_Witness ==
    /\ pc = "cycle_end"
    /\ lastResp.format.net = "response" /\ lastResp.format.status = 500
    /\ Reports = <<HttpLine(lastResp.format)>>

\* The transcript the transcription endpoint returned in this cycle.
Returned == lastResp.transcribe.body.text

\* ---- C6: the preview is the whole transcript when it has at most 200
\* characters and its first 200 characters and "..." when it has more; the
\* formatting call and the note file get the whole transcript.
C6_PreviewAndFullText ==
    /\ \A i \in 1..Len(printed) :
           printed[i].kind = "preview" =>
               /\ Len(Returned) <= PreviewLen => printed[i].text = Returned
               /\ Len(Returned) > PreviewLen =>
                      printed[i].text = SubSeq(Returned, 1, PreviewLen) \o <<".", ".", ".">>
    /\ \A i \in 1..Len(calls) :
           /\ calls[i].op = "format" => calls[i].text = Returned
           /\ (calls[i].op = "write" /\ pc = "cycle_end" /\ caught = NoExc) =>
                  /\ files[calls[i].name].kind = "note"
                  /\ files[calls[i].name].transcript = Returned

\* A transcript of more than 200 characters, previewed and saved.
C6_Witness ==
    /\ pc = "cycle_end" /\ touched /\ caught = NoExc
    /\ Len(Returned) > PreviewLen
    /\ \E i \in 1..Len(printed) : printed[i].kind = "preview"

\* ---- C7: the note file named for a clock minute holds what the latest
\* completed save_notes of that minute wrote: a second recording of the same
\* minute replaces the first without an error, and a recording of another minute
\* leaves the file alone.
C7_LatestOfTheMinute ==
    /\ \A t \in Times :
           lastSaved[t].kind = "note" => files[NoteName(t)] = lastSaved[t]
    /\ overwrote => (caught = NoExc /\ Reports = <<>>)

\* A note replaced in its minute while the note of the other minute stands.
C7_Witness ==
    /\ pc = "cycle_end" /\ overwrote
    /\ files[NoteName(clock)] = lastSaved[clock]
    /\ \E t \in Times \ {clock} : lastSaved[t].kind = "note"

\* The frames whose callback read the flag as true, in arrival order.
RECURSIVE Accepted(_)
Accepted(n) ==
    IF n = 0 THEN <<>>
    ELSE Accepted(n - 1) \o (IF sawFlag[n] = "true" THEN <<n>> ELSE <<>>)

\* ---- C9 (as stated): the callback appends only while the flag is true, the
\* main thread reads the frame list only after the stream is stopped, the list
\* never changes after that read, and the array returned is the frames
\* delivered while recording was true, in arrival order.
C9_AppendOnlyWhileFlagTrue ==
    /\ \A k \in FrameIds : flagAtAppend[k] # "false"
    /\ hasRead => (~streamOn /\ frames = readBuf)
    /\ hasRead => (frames = Accepted(delivered) /\ audio = Concatenate(frames))

\* ---- C9 (amended): the callback appends a frame only if it read the flag as
\* true (the append itself may land after the flag is cleared, before
\* stream.stop() returns); the rest as stated.
C9_AppendOnlyIfFlagRead ==
    /\ \A i \in 1..Len(frames) : sawFlag[frames[i]] = "true"
    /\ hasRead => (~streamOn /\ cbpc = "idle" /\ frames = readBuf)
    /\ hasRead => (frames = Accepted(delivered) /\ audio = Concatenate(frames))

\* A returned array holding a frame that was appended after the flag was cleared.
C9_Witness ==
    /\ hasRead
    /\ \E k \in FrameIds : flagAtAppend[k] = "false"
    /\ Len(frames) = MaxFrames

Succeeded(o, kind) ==
    o.net = "response" /\ ~(o.status \in 400..599) /\ o.body.kind = kind
Failed(o, kind) == o.net # "none" /\ ~Succeeded(o, kind)

\* ---- C10: a session issues at most one transcription request, then at most
\* one formatting request, then at most one note write, in that order, each only
\* after the one before succeeded; when a request fails no note is created or
\* modified and nothing is sent again.
C10_LinearPipeline ==
    /\ [i \in 1..Len(calls) |-> calls[i].op]
           \in {<<>>, <<"transcribe">>, <<"transcribe", "format">>,
                <<"transcribe", "format", "write">>}
    /\ Len(calls) >= 2 => Succeeded(lastResp.transcribe, "result")
    /\ Len(calls) >= 3 => Succeeded(lastResp.format, "response")
    /\ touched => Len(calls) = 3
    /\ (Failed(lastResp.transcribe, "result") \/ Failed(lastResp.format, "response"))
           => (~touched /\ Len(calls) < 3)

\* A cycle whose formatting call failed: two requests, no note.
C10_Witness ==
    /\ pc = "cycle_end"
    /\ Failed(lastResp.format, "response")
    /\ Len(calls) = 2 /\ ~touched

====
